---------------------------- MODULE Spec2Model ----------------------------
(***************************************************************************)
(* A model of scraper.py: the listing-container locator, the field         *)
(* normaliser, the geocode / distance enrichment, the pros/cons annotator  *)
(* and the report loop of run_search_and_build_pdf.                        *)
(*                                                                         *)
(* JSON values are records of one shape, [t, n, e, s]:                     *)
(*   t = "null"            None / a JSON null                              *)
(*   t = "int"             the integer n                                   *)
(*   t = "float"           the decimal n / 10^e                            *)
(*   t = "nan"             the float NaN                                   *)
(*   t = "str"             the text s, a sequence of one-character strings *)
(*   t = "other"           a non-empty list or mapping used as a field     *)
(* A mapping is a sequence of <<key, value>> pairs in insertion order.     *)
(***************************************************************************)
EXTENDS Integers, Sequences, FiniteSets, TLC

VARIABLES pc, key, host, maxPrice, j, listings, props, blocks, log, inp, out

vars == <<pc, key, host, maxPrice, j, listings, props, blocks, log, inp, out>>

(***************************************************************************)
(* Bounds of the model.                                                    *)
(***************************************************************************)
MaxStrLen == 3
MaxListings == 2
MaxEntries == 2

(***************************************************************************)
(* Python values.                                                          *)
(***************************************************************************)
None == [t |-> "null", n |-> 0, e |-> 0, s |-> <<>>]
IntV(i) == [t |-> "int", n |-> i, e |-> 0, s |-> <<>>]
FloatV(m, d) == [t |-> "float", n |-> m, e |-> d, s |-> <<>>]
NaN == [t |-> "nan", n |-> 0, e |-> 0, s |-> <<>>]
StrV(str) == [t |-> "str", n |-> 0, e |-> 0, s |-> str]
Other == [t |-> "other", n |-> 0, e |-> 0, s |-> <<>>]

\* The outcome of an expression that may raise.
Ok(v) == [ok |-> TRUE, v |-> v]
Raised == [ok |-> FALSE, v |-> None]

IsNone(v) == v.t = "null"

\* bool(v)
Truthy(v) ==
    CASE v.t = "null" -> FALSE
      [] v.t = "int" -> v.n # 0
      [] v.t = "float" -> v.n # 0
      [] v.t = "nan" -> TRUE
      [] v.t = "str" -> v.s # <<>>
      [] OTHER -> TRUE

Digits == {"0", "1", "2", "3", "4", "5", "6", "7", "8", "9"}

IsDigit(c) == c \in Digits

DigitVal(c) ==
    CASE c = "0" -> 0 [] c = "1" -> 1 [] c = "2" -> 2 [] c = "3" -> 3
      [] c = "4" -> 4 [] c = "5" -> 5 [] c = "6" -> 6 [] c = "7" -> 7
      [] c = "8" -> 8 [] c = "9" -> 9

RECURSIVE Pow10(_)
Pow10(d) == IF d = 0 THEN 1 ELSE 10 * Pow10(d - 1)

RECURSIVE DecimalValue(_)
DecimalValue(ds) ==
    IF ds = <<>> THEN 0
    ELSE 10 * DecimalValue(SubSeq(ds, 1, Len(ds) - 1)) + DigitVal(ds[Len(ds)])

AllDigits(str) == \A i \in 1..Len(str) : IsDigit(str[i])

HasSign(str) == str # <<>> /\ Head(str) \in {"-", "+"}

Unsigned(str) == IF HasSign(str) THEN Tail(str) ELSE str

Signed(str, m) == IF HasSign(str) /\ Head(str) = "-" THEN 0 - m ELSE m

\* int(<text>): an optional sign and one or more digits, anything else raises.
IntOfText(str) ==
    LET body == Unsigned(str)
    IN  IF body # <<>> /\ AllDigits(body)
        THEN Ok(IntV(Signed(str, DecimalValue(body))))
        ELSE Raised

\* int(<float>) truncates towards zero.
Truncate(m, d) ==
    IF m >= 0 THEN m \div Pow10(d) ELSE 0 - ((0 - m) \div Pow10(d))

\* int(v)
PyInt(v) ==
    CASE v.t = "int" -> Ok(IntV(v.n))
      [] v.t = "float" -> Ok(IntV(Truncate(v.n, v.e)))
      [] v.t = "str" -> IntOfText(v.s)
      [] OTHER -> Raised

\* float(<text>): an optional sign, digits with at most one point, one digit
\* at least.
FloatOfText(str) ==
    LET body == Unsigned(str)
        dots == {i \in 1..Len(body) : body[i] = "."}
        whole == IF dots = {} THEN body
                 ELSE SubSeq(body, 1, (CHOOSE i \in dots : TRUE) - 1)
        frac == IF dots = {} THEN <<>>
                ELSE SubSeq(body, (CHOOSE i \in dots : TRUE) + 1, Len(body))
    IN  IF /\ Cardinality(dots) <= 1
           /\ AllDigits(whole) /\ AllDigits(frac)
           /\ Len(whole) + Len(frac) >= 1
        THEN Ok(FloatV(Signed(str, DecimalValue(whole \o frac)), Len(frac)))
        ELSE Raised

\* float(v)
PyFloat(v) ==
    CASE v.t = "int" -> Ok(FloatV(v.n, 0))
      [] v.t = "float" -> Ok(v)
      [] v.t = "nan" -> Ok(v)
      [] v.t = "str" -> FloatOfText(v.s)
      [] OTHER -> Raised

(***************************************************************************)
(* Mappings: sequences of <<key, value>> pairs, keys distinct.             *)
(***************************************************************************)
Dict(kv) == [t |-> "dict", kv |-> kv]
NotADict == [t |-> "other", kv |-> <<>>]

HasKey(o, k) == \E i \in 1..Len(o.kv) : o.kv[i][1] = k

Get(o, k) == o.kv[CHOOSE i \in 1..Len(o.kv) : o.kv[i][1] = k][2]

Min(S) == CHOOSE x \in S : \A y \in S : x <= y

try_get(o, keys) ==
    LET present == {i \in 1..Len(keys) : o.t = "dict" /\ HasKey(o, keys[i])}
    IN  IF present = {} THEN None ELSE Get(o, keys[Min(present)])

(***************************************************************************)
(* extract_field                                                           *)
(***************************************************************************)
PriceKeys == <<"price", "price_display", "price_value", "price_min", "asking_price">>
BedsKeys == <<"bedrooms", "beds", "bed">>
BathsKeys == <<"bathrooms", "baths", "bath">>
CarsKeys == <<"carspaces", "cars", "parking", "car">>
AddressKeys == <<"address", "full_address", "displayable_address", "formatted_address">>
UrlKeys == <<"url", "ldp_url", "listing_url", "detail_url">>
LatKeys == <<"lat", "latitude">>
LonKeys == <<"lon", "lng", "longitude">>

\* price.replace(",", "")
RemoveCommas(str) == SelectSeq(str, LAMBDA c : c # ",")

\* The length of the longest all-digit prefix of str.
DigitPrefix(str) ==
    IF AllDigits(str) THEN Len(str)
    ELSE Min({i \in 1..Len(str) : ~IsDigit(str[i])}) - 1

\* re.findall(r"\d+", str): the maximal runs of digits, left to right.
RECURSIVE FindDigitRuns(_)
FindDigitRuns(str) ==
    IF str = <<>> THEN <<>>
    ELSE IF ~IsDigit(Head(str)) THEN FindDigitRuns(Tail(str))
    ELSE <<SubSeq(str, 1, DigitPrefix(str))>>
             \o FindDigitRuns(SubSeq(str, DigitPrefix(str) + 1, Len(str)))

\* "".join(nums)
RECURSIVE Join(_)
Join(nums) == IF nums = <<>> THEN <<>> ELSE Head(nums) \o Join(Tail(nums))

\* The first run alone: what nums[0] would give.
PriceOfTextFirstRun(str) ==
    LET nums == FindDigitRuns(str)
    IN  IF nums # <<>> THEN IntOfText(Head(nums)) ELSE Ok(None)

\* The branch of extract_field for a text price.
PriceOfText(str) ==
    LET nums == FindDigitRuns(RemoveCommas(str))
    IN  IF nums # <<>> THEN IntOfText(Join(nums)) ELSE Ok(None)

\* The body of the first try block: price_val.
PriceVal(price) ==
    CASE price.t \in {"int", "float", "nan"} -> PyInt(price)
      [] price.t = "str" -> PriceOfText(price.s)
      [] OTHER -> Ok(None)

\* beds not in (None, "")
NotNoneOrEmpty(v) == ~(v.t = "null" \/ (v.t = "str" /\ v.s = <<>>))

\* int(x) if x not in (None, "") else None
CountVal(v) == IF NotNoneOrEmpty(v) THEN PyInt(v) ELSE Ok(None)

\* try: <r> except Exception: <the value is None>
Guarded(r) == IF r.ok THEN r ELSE Ok(None)

extract_field(listing) ==
    LET price == try_get(listing, PriceKeys)
        price_val == Guarded(PriceVal(price))
        beds == Guarded(CountVal(try_get(listing, BedsKeys)))
        baths == Guarded(CountVal(try_get(listing, BathsKeys)))
        cars == Guarded(CountVal(try_get(listing, CarsKeys)))
    IN  IF price_val.ok /\ beds.ok /\ baths.ok /\ cars.ok
        THEN Ok([price_raw |-> price,
                 price |-> price_val.v,
                 beds |-> beds.v,
                 baths |-> baths.v,
                 cars |-> cars.v,
                 address |-> try_get(listing, AddressKeys),
                 url |-> try_get(listing, UrlKeys),
                 lat |-> try_get(listing, LatKeys),
                 lon |-> try_get(listing, LonKeys)])
        ELSE [ok |-> FALSE, v |-> <<>>]

(***************************************************************************)
(* find_listings_container.  A document is [t, kv, items]: a mapping with  *)
(* its entries in iteration order, a list with its items, or anything      *)
(* else.                                                                   *)
(***************************************************************************)
DocDict(kv) == [t |-> "dict", kv |-> kv, items |-> <<>>]
DocList(items) == [t |-> "list", kv |-> <<>>, items |-> items]
DocOther == [t |-> "other", kv |-> <<>>, items |-> <<>>]

Found(items) == [found |-> TRUE, items |-> items]
NotFound == [found |-> FALSE, items |-> <<>>]

Candidates == <<"properties", "listings", "results", "data", "items">>

\* A fallback that takes the first list of any content.
FirstListOfAny(doc) ==
    LET hits == {i \in 1..Len(doc.kv) : doc.kv[i][2].t = "list"}
    IN  IF hits = {} THEN NotFound ELSE Found(doc.kv[Min(hits)][2].items)

\* The fallback loop: the first entry whose value is a non-empty list starting
\* with a dict.
FirstListOfDicts(doc) ==
    LET hits == {i \in 1..Len(doc.kv) :
                    /\ doc.kv[i][2].t = "list"
                    /\ Len(doc.kv[i][2].items) > 0
                    /\ doc.kv[i][2].items[1].t = "dict"}
    IN  IF hits = {} THEN NotFound ELSE Found(doc.kv[Min(hits)][2].items)

find_listings_container(doc) ==
    LET hits == {i \in 1..Len(Candidates) :
                    HasKey(doc, Candidates[i]) /\ Get(doc, Candidates[i]).t = "list"}
    IN  IF doc.t = "dict"
        THEN IF hits # {} THEN Found(Get(doc, Candidates[Min(hits)]).items)
             ELSE FirstListOfDicts(doc)
        ELSE IF doc.t = "list" THEN Found(doc.items)
        ELSE NotFound

(***************************************************************************)
(* The geocode step of the loop (lines 153-166).  The lookup's outcome is  *)
(* [kind, first]: the request raised ("neterr"), the body did not parse    *)
(* ("badjson"), the parsed body is falsy ("empty"), is truthy and no list  *)
(* ("nonlist"), or is a list whose first element is `first` ("result").    *)
(***************************************************************************)
\* A lookup only when both coordinates are missing.
NeedsGeocodeBothMissing(item) ==
    (IsNone(item.lat) /\ IsNone(item.lon)) /\ Truthy(item.address)

NeedsGeocode(item) == (IsNone(item.lat) \/ IsNone(item.lon)) /\ Truthy(item.address)

\* item["lat"] = float(geodata[0]["lat"]); None when the subscript or float raises.
GeoField(first, k) ==
    IF first.t = "dict" /\ HasKey(first, k) THEN PyFloat(Get(first, k)) ELSE Raised

\* A try block that pauses after every request that returned.
GeocodeTryAlwaysPausing(item, g) ==
    LET lat == GeoField(g.first, "lat")
        lon == GeoField(g.first, "lon")
    IN  IF g.kind # "result" \/ ~lat.ok
        THEN [item |-> item, slept |-> g.kind \notin {"neterr", "badjson"}]
        ELSE IF ~lon.ok
        THEN [item |-> [item EXCEPT !.lat = lat.v], slept |-> TRUE]
        ELSE [item |-> [item EXCEPT !.lat = lat.v, !.lon = lon.v], slept |-> TRUE]

\* The try block: [item, slept].
GeocodeTry(item, g) ==
    LET lat == GeoField(g.first, "lat")
        lon == GeoField(g.first, "lon")
    IN  IF g.kind # "result" \/ ~lat.ok
        THEN [item |-> item, slept |-> FALSE]
        ELSE IF ~lon.ok
        THEN [item |-> [item EXCEPT !.lat = lat.v], slept |-> FALSE]
        ELSE [item |-> [item EXCEPT !.lat = lat.v, !.lon = lon.v], slept |-> TRUE]

(***************************************************************************)
(* The distances (lines 169-176).  haversine_km is left uninterpreted: a   *)
(* known distance carries the coordinates and the landmark it is from.     *)
(***************************************************************************)
NoDistance == [known |-> FALSE, lat |-> None, lon |-> None, to |-> ""]

haversine_km(lat, lon, landmark) ==
    [known |-> TRUE, lat |-> lat, lon |-> lon, to |-> landmark]

Distances(item) ==
    LET lat == PyFloat(item.lat)
        lon == PyFloat(item.lon)
    IN  IF Truthy(item.lat) /\ Truthy(item.lon) /\ lat.ok /\ lon.ok
        THEN [station |-> haversine_km(lat.v, lon.v, "station"),
              park |-> haversine_km(lat.v, lon.v, "park")]
        ELSE [station |-> NoDistance, park |-> NoDistance]

(***************************************************************************)
(* The pros / cons rules (lines 179-194).                                  *)
(***************************************************************************)
CarsPros(item) ==
    IF Truthy(item.cars) /\ item.cars.n >= 1 THEN <<"Has 1+ car space">> ELSE <<>>

CarsCons(item) ==
    IF Truthy(item.cars) /\ item.cars.n >= 1 THEN <<>>
    ELSE <<"No dedicated parking listed">>

TwoBeds(item) == item.beds.t = "int" /\ item.beds.n = 2

BathsPros(item) ==
    IF TwoBeds(item) /\ Truthy(item.baths) /\ item.baths.n >= 2
    THEN <<"2 beds + 2 baths">> ELSE <<>>

BathsCons(item) ==
    IF TwoBeds(item) /\ Truthy(item.baths) /\ item.baths.n >= 2 THEN <<>>
    ELSE IF TwoBeds(item) /\ (~Truthy(item.baths) \/ item.baths.n = 1)
    THEN <<"Only 1 bath for 2 beds">> ELSE <<>>

PricePros(item, MAX_PRICE) ==
    IF Truthy(item.price) /\ item.price.n <= MAX_PRICE - 50000
    THEN <<"Good value under budget">> ELSE <<>>

PriceCons(item, MAX_PRICE) ==
    IF Truthy(item.price) /\ item.price.n <= MAX_PRICE - 50000 THEN <<>>
    ELSE IF Truthy(item.price) /\ item.price.n >= MAX_PRICE - 10000
    THEN <<"Close to top of budget">> ELSE <<>>

Pros(item, MAX_PRICE) == CarsPros(item) \o BathsPros(item) \o PricePros(item, MAX_PRICE)

Cons(item, MAX_PRICE) == CarsCons(item) \o BathsCons(item) \o PriceCons(item, MAX_PRICE)

(***************************************************************************)
(* The report block of one listing (lines 212-237): the values its lines   *)
(* are formatted from; an optional line that is not printed is None,       *)
(* NoDistance or <<>>.                                                     *)
(***************************************************************************)
\* a or b
PyOr(a, b) == IF Truthy(a) THEN a ELSE b

RECURSIVE NatToText(_)
NatToText(n) ==
    IF n < 10 THEN <<CHOOSE c \in Digits : DigitVal(c) = n>>
    ELSE NatToText(n \div 10) \o <<CHOOSE c \in Digits : DigitVal(c) = n % 10>>

\* str(v), for the texts and integers that reach it.
PyStr(v) ==
    CASE v.t = "str" -> v
      [] v.t = "int" ->
           StrV(IF v.n < 0 THEN <<"-">> \o NatToText(0 - v.n) ELSE NatToText(v.n))

Text(str) == StrV(str)

Block(p) ==
    LET i == p.raw
    IN  [title |-> PyOr(i.address, PyStr(PyOr(i.url, Text(<<"Property">>)))),
         price_text |-> PyOr(i.price_raw,
                             IF Truthy(i.price)
                             THEN Text(<<"$">> \o PyStr(i.price).s)
                             ELSE Text(<<"Price unknown">>)),
         beds |-> PyOr(i.beds, Text(<<"?">>)),
         baths |-> PyOr(i.baths, Text(<<"?">>)),
         cars |-> PyOr(i.cars, Text(<<"?">>)),
         link |-> IF Truthy(i.url) THEN i.url ELSE None,
         station |-> p.dist_station_km,
         park |-> p.dist_park_km,
         pros |-> p.pros,
         cons |-> p.cons]

(***************************************************************************)
(* The inputs of a run: the environment, the listing API's answer and the  *)
(* geocoder's answers.                                                     *)
(***************************************************************************)
DefaultMaxPrice == 500000

Absent == [t |-> "absent", n |-> 0, e |-> 0, s |-> <<>>]

\* An entry of a mapping literal that may be left out.
Opt(k, v) == IF v = Absent THEN <<>> ELSE << <<k, v>> >>

CredentialValues == {None, StrV(<<>>), StrV(<<"k">>)}

StatusCodes == {200, 404, 500}

BareProfile == <<>>

FullProfile ==
    << <<"price", StrV(<<"$", "4", "5", "0", ",", "0", "0", "0">>)>>,
       <<"bedrooms", IntV(2)>>, <<"bathrooms", IntV(2)>>,
       <<"carspaces", IntV(1)>>, <<"url", StrV(<<"u">>)>> >>

AtStationLat == <<"lat", FloatV(0 - 338178, 4)>>
AtStationLon == <<"lon", FloatV(1510035, 4)>>

\* Listings as the API may return them: with and without coordinates, address
\* and the other fields, and one element that is no mapping at all.
RunListings ==
    {Dict(<< <<"address", StrV(<<"A">>)>>, AtStationLat, AtStationLon >> \o FullProfile),
     Dict(<< <<"address", StrV(<<"B">>)>> >>),
     Dict(<< <<"full_address", StrV(<<"C">>)>>, <<"latitude", None>>, <<"lng", None>> >>
              \o FullProfile),
     Dict(<< <<"url", StrV(<<"v">>)>> >>),
     Dict(<< <<"address", StrV(<<>>)>>, AtStationLon >>),
     Dict(<< <<"address", StrV(<<"D">>)>>, <<"lat", IntV(0)>>, AtStationLon >>),
     Dict(<< <<"address", StrV(<<"E">>)>>, AtStationLat >> \o FullProfile),
     Dict(<< <<"address", StrV(<<"F">>)>>, <<"lat", StrV(<<"a">>)>>, AtStationLon >>),
     NotADict}

RECURSIVE SeqsUpTo(_, _)
SeqsUpTo(S, n) ==
    IF n = 0 THEN {<<>>}
    ELSE LET shorter == SeqsUpTo(S, n - 1)
         IN  shorter \cup {Append(q, x) : q \in shorter, x \in S}

RunContainers == SeqsUpTo(RunListings, MaxListings)

Unparsable == [t |-> "invalid", kv |-> <<>>, items |-> <<>>]

\* The parsed responses: a bare list of listings, a mapping holding a short
\* list under a conventional key or under another one, responses with no
\* container, and a body that is no JSON.
RunBodies ==
    {DocList(c) : c \in RunContainers}
    \cup {DocDict(<< <<"properties", DocList(c)>> >>) : c \in SeqsUpTo(RunListings, 1)}
    \cup {DocDict(<< <<"meta", DocOther>>, <<"homes", DocList(c)>> >>) :
             c \in SeqsUpTo(RunListings, 1)}
    \cup {DocOther, DocDict(<< <<"meta", DocOther>> >>), Unparsable}

GeoCoords ==
    {Absent, None, StrV(<<"a">>), StrV(<<"0">>), StrV(<<"-", "3", "3", ".", "8">>)}

GeoOutcomes ==
    {[kind |-> k, first |-> NotADict] :
        k \in {"neterr", "badjson", "empty", "nonlist", "result"}}
    \cup {[kind |-> "result", first |-> Dict(Opt("lat", a) \o Opt("lon", b))] :
             a \in GeoCoords, b \in GeoCoords}

\* The lookup gave no usable pair of coordinates: the request or the parse of
\* its body failed, the result is empty or no list, or its first element lacks
\* a "lat" or "lon" that float() accepts.
LookupFailed(g) ==
    \/ g.kind # "result"
    \/ g.first.t # "dict"
    \/ \E k \in {"lat", "lon"} :
          ~HasKey(g.first, k) \/ ~PyFloat(Get(g.first, k)).ok

NoLookup == [kind |-> "none", first |-> NotADict]

\* What the run did to the outside world, in order.
Ev(e, k, fail) == [e |-> e, k |-> k, fail |-> fail]

(***************************************************************************)
(* run_search_and_build_pdf                                                *)
(***************************************************************************)
Init ==
    /\ pc = "start"
    /\ key \in CredentialValues
    /\ host \in CredentialValues
    /\ maxPrice = DefaultMaxPrice
    /\ j = DocOther
    /\ listings = <<>>
    /\ props = <<>>
    /\ blocks = <<>>
    /\ log = <<>>
    /\ inp = <<>>
    /\ out = <<>>

\* Lines 113-114.
CheckCredentials ==
    /\ pc = "start"
    /\ pc' = IF ~Truthy(key) \/ ~Truthy(host) THEN "exit" ELSE "request"
    /\ UNCHANGED <<key, host, maxPrice, j, listings, props, blocks, log, inp, out>>

\* A fetch that does not look at the status.
FetchListingsAnyStatus ==
    /\ pc = "request"
    /\ \E status \in StatusCodes, body \in RunBodies :
          /\ log' = Append(log, Ev("api", 0, status # 200))
          /\ IF body = Unparsable THEN pc' = "crash" /\ j' = j
             ELSE pc' = "locate" /\ j' = body
    /\ UNCHANGED <<key, host, maxPrice, listings, props, blocks, inp, out>>

\* Lines 116-142: the request, the status check and r.json().
FetchListings ==
    /\ pc = "request"
    /\ \E status \in StatusCodes, body \in RunBodies :
          /\ log' = Append(log, Ev("api", 0, status # 200))
          /\ IF status # 200 THEN pc' = "exit" /\ j' = j
             ELSE IF body = Unparsable THEN pc' = "crash" /\ j' = j
             ELSE pc' = "locate" /\ j' = body
    /\ UNCHANGED <<key, host, maxPrice, listings, props, blocks, inp, out>>

\* Lines 143-149.
LocateContainer ==
    /\ pc = "locate"
    /\ LET r == find_listings_container(j)
       IN  IF ~r.found \/ r.items = <<>>
           THEN pc' = "exit" /\ listings' = listings
           ELSE pc' = "enrich" /\ listings' = r.items
    /\ UNCHANGED <<key, host, maxPrice, j, props, blocks, log, inp, out>>

\* One listing's geocode step: [item, log].
Geocode(item, k, g) ==
    IF NeedsGeocode(item)
    THEN LET r == GeocodeTry(item, g)
         IN  [item |-> r.item,
              log |-> <<Ev("geocode", k, LookupFailed(g))>>
                         \o (IF r.slept THEN <<Ev("sleep", k, FALSE)>> ELSE <<>>)]
    ELSE [item |-> item, log |-> <<>>]

\* What the loop appends for one item.
Enriched(item, MAX_PRICE) ==
    [raw |-> item,
     dist_station_km |-> Distances(item).station,
     dist_park_km |-> Distances(item).park,
     pros |-> Pros(item, MAX_PRICE),
     cons |-> Cons(item, MAX_PRICE)]

\* The listing the k-th iteration of the loop works on.
LoopItem(k) == listings[k]

\* Lines 150-202: one iteration of the loop over listings.
EnrichListing ==
    /\ pc = "enrich"
    /\ LET k == Len(props) + 1
           x == extract_field(LoopItem(k))
       IN  IF ~x.ok
           THEN pc' = "crash" /\ UNCHANGED <<props, log>>
           ELSE \E g \in (IF NeedsGeocode(x.v) THEN GeoOutcomes ELSE {NoLookup}) :
                   /\ props' = Append(props, Enriched(Geocode(x.v, k, g).item, maxPrice))
                   /\ log' = log \o Geocode(x.v, k, g).log
                   /\ pc' = IF k = Len(listings) THEN "render" ELSE "enrich"
    /\ UNCHANGED <<key, host, maxPrice, j, listings, blocks, inp, out>>

\* The entries taken from the end.
RenderItemReversed(k) == props[Len(props) + 1 - k]

\* The entry the k-th block is drawn from.
RenderItem(k) == props[k]

\* Lines 212-237: one iteration of the loop over props.
RenderListing ==
    /\ pc = "render"
    /\ blocks' = Append(blocks, Block(RenderItem(Len(blocks) + 1)))
    /\ pc' = IF Len(blocks) + 1 = Len(props) THEN "output" ELSE "render"
    /\ UNCHANGED <<key, host, maxPrice, j, listings, props, log, inp, out>>

\* Lines 239-241.
WritePdf ==
    /\ pc = "output"
    /\ log' = Append(log, Ev("pdf", 0, FALSE))
    /\ pc' = "done"
    /\ UNCHANGED <<key, host, maxPrice, j, listings, props, blocks, inp, out>>

Next ==
    \/ CheckCredentials
    \/ FetchListings
    \/ LocateContainer
    \/ EnrichListing
    \/ RenderListing
    \/ WritePdf

Spec == Init /\ [][Next]_vars

(***************************************************************************)
(* extract_field on its own: one call on a raw listing.                    *)
(***************************************************************************)
PriceChars == {"$", ",", "4", "0", "a"}

Dollars450k == <<"$", "4", "5", "0", ",", "0", "0", "0">>

PriceTexts == SeqsUpTo(PriceChars, MaxStrLen) \cup {Dollars450k}

PriceValues ==
    {StrV(str) : str \in PriceTexts}
    \cup {IntV(450000), IntV(0), IntV(0 - 5), FloatV(4505, 1), FloatV(0 - 4505, 1),
          FloatV(4500000, 1), NaN, None, Other}

FewPriceValues == {None, StrV(<<"a">>), StrV(<<"4">>), StrV(Dollars450k), IntV(7)}

CountValues ==
    {Absent, None, NaN, Other, IntV(2), FloatV(25, 1), StrV(<<>>), StrV(<<"2">>),
     StrV(<<"a">>), StrV(<<"-", "1">>), StrV(<<"2", ".", "0">>)}

KeySet(keys) == {keys[i] : i \in 1..Len(keys)}

ExtractInputs ==
    {Dict(<< <<k, v>> >>) : k \in KeySet(PriceKeys), v \in PriceValues}
    \cup UNION {{Dict(<< <<k1, v1>>, <<k2, v2>> >>) :
                     k2 \in KeySet(PriceKeys) \ {k1},
                     v1 \in FewPriceValues, v2 \in FewPriceValues} :
                 k1 \in KeySet(PriceKeys)}
    \cup {Dict(Opt("beds", b) \o Opt("bathrooms", ba) \o Opt("car", NaN)) :
             b \in CountValues, ba \in CountValues}
    \cup {NotADict}

InitExtract ==
    /\ pc = "call"
    /\ inp \in ExtractInputs
    /\ out = <<>>
    /\ key = None /\ host = None /\ maxPrice = DefaultMaxPrice
    /\ j = DocOther /\ listings = <<>> /\ props = <<>> /\ blocks = <<>> /\ log = <<>>

ExtractField ==
    /\ pc = "call"
    /\ out' = extract_field(inp)
    /\ pc' = "returned"
    /\ UNCHANGED <<key, host, maxPrice, j, listings, props, blocks, log, inp>>

NextExtract == ExtractField

SpecExtract == InitExtract /\ [][NextExtract]_vars

(***************************************************************************)
(* The pros / cons rules on their own: a raw listing is normalised and     *)
(* annotated against a budget.                                             *)
(***************************************************************************)
Budgets == {500000, 60000, 5000}

PricesNear(m) ==
    {Absent, StrV(<<"a">>), StrV(<<"0">>), IntV(0), IntV(0 - 5)}
    \cup {IntV(m - d) : d \in {60000, 50000, 49999, 30000, 10001, 10000, 5000, 0}}

BedsValues == {Absent, IntV(1), IntV(2), StrV(<<"2">>), IntV(3)}
BathsValues == {Absent, IntV(0 - 1), IntV(0), IntV(1), IntV(2), IntV(3), StrV(<<"a">>)}
CarsValues == {Absent, IntV(0), IntV(1), IntV(2)}

InitAnnotate ==
    /\ pc = "call"
    /\ maxPrice \in Budgets
    /\ inp \in {Dict(Opt("price", p) \o Opt("beds", b) \o Opt("baths", ba)
                        \o Opt("cars", c)) :
                   p \in PricesNear(maxPrice), b \in BedsValues,
                   ba \in BathsValues, c \in CarsValues}
    /\ out = <<>>
    /\ key = None /\ host = None
    /\ j = DocOther /\ listings = <<>> /\ props = <<>> /\ blocks = <<>> /\ log = <<>>

Annotate ==
    /\ pc = "call"
    /\ out' = Enriched(extract_field(inp).v, maxPrice)
    /\ pc' = "returned"
    /\ UNCHANGED <<key, host, maxPrice, j, listings, props, blocks, log, inp>>

NextAnnotate == Annotate

SpecAnnotate == InitAnnotate /\ [][NextAnnotate]_vars

(***************************************************************************)
(* find_listings_container on its own: one call on a parsed response.      *)
(***************************************************************************)
ListA == DocList(<<Dict(<< <<"address", StrV(<<"A">>)>> >>)>>)
ListB == DocList(<<Dict(<< <<"address", StrV(<<"B">>)>> >>), NotADict>>)
ListOfOthers == DocList(<<NotADict, Dict(<< <<"address", StrV(<<"C">>)>> >>)>>)

DocValues == {ListA, ListB, ListOfOthers, DocList(<<>>), DocOther, DocDict(<<>>)}

DocKeys == {"properties", "listings", "items", "homes", "meta"}

RECURSIVE EntriesUpTo(_)
EntriesUpTo(n) ==
    IF n = 0 THEN {<<>>}
    ELSE LET shorter == EntriesUpTo(n - 1)
         IN  shorter \cup
             {Append(q, <<k, v>>) :
                 q \in shorter, k \in DocKeys, v \in DocValues}

DistinctKeys(kv) ==
    \A a \in 1..Len(kv), b \in 1..Len(kv) : kv[a][1] = kv[b][1] => a = b

LocateInputs ==
    {DocDict(kv) : kv \in {q \in EntriesUpTo(MaxEntries) : DistinctKeys(q)}}
    \cup {ListA, ListOfOthers, DocList(<<>>), DocOther}

InitLocate ==
    /\ pc = "call"
    /\ inp \in LocateInputs
    /\ out = <<>>
    /\ key = None /\ host = None /\ maxPrice = DefaultMaxPrice
    /\ j = DocOther /\ listings = <<>> /\ props = <<>> /\ blocks = <<>> /\ log = <<>>

Locate ==
    /\ pc = "call"
    /\ out' = find_listings_container(inp)
    /\ pc' = "returned"
    /\ UNCHANGED <<key, host, maxPrice, j, listings, props, blocks, log, inp>>

NextLocate == Locate

SpecLocate == InitLocate /\ [][NextLocate]_vars

(***************************************************************************)
(* Properties.                                                             *)
(***************************************************************************)
Range(f) == {f[i] : i \in DOMAIN f}

EventsOf(e) == {i \in 1..Len(log) : log[i].e = e}

RawLat(k) == try_get(listings[k], LatKeys)
RawLon(k) == try_get(listings[k], LonKeys)
RawAddress(k) == try_get(listings[k], AddressKeys)

Located == {"enrich", "render", "output", "done"}

\* C1: with a container located, props holds one entry per raw record, the
\* k-th from the k-th record, and the report one block per entry in the same
\* order; the loops end with every record enriched and every entry rendered,
\* and the run never stops in between.
OneEntryPerListing ==
    /\ Len(props) <= Len(listings)
    /\ Len(blocks) <= Len(props)
    /\ \A k \in 1..Len(props) :
          LET x == extract_field(listings[k]).v
              r == props[k].raw
          IN  /\ r.address = x.address /\ r.url = x.url
              /\ r.price_raw = x.price_raw /\ r.price = x.price
              /\ r.beds = x.beds /\ r.baths = x.baths /\ r.cars = x.cars
    /\ \A k \in 1..Len(blocks) : blocks[k] = Block(props[k])
    /\ pc \in {"render", "output", "done"} => Len(props) = Len(listings)
    /\ pc \in {"output", "done"} => Len(blocks) = Len(props)
    /\ listings # <<>> => pc \in Located

\* A finished run over a record that is no mapping and a record whose geocode
\* lookup failed.
OneEntryPerListingWitness ==
    /\ pc = "done"
    /\ Len(blocks) = 2
    /\ listings[1] = NotADict
    /\ \E i \in EventsOf("geocode") : log[i].k = 2 /\ log[i].fail

\* C2: without a key or host the run exits before any request; a status other
\* than 200 or a response with no container ends the run with no geocode
\* request and no PDF; the PDF is written only with credentials, a 200 and a
\* container.
StructuralFailuresAbort ==
    /\ (~Truthy(key) \/ ~Truthy(host)) => log = <<>> /\ pc \in {"start", "exit"}
    /\ \A i \in EventsOf("api") : log[i].fail => pc = "exit" /\ Len(log) = 1
    /\ pc \in Located =>
          /\ Truthy(key) /\ Truthy(host)
          /\ log # <<>> /\ log[1] = Ev("api", 0, FALSE)
          /\ find_listings_container(j).found
    /\ (EventsOf("geocode") # {} \/ EventsOf("pdf") # {}) => pc \in Located
    /\ EventsOf("pdf") # {} => pc = "done"

\* A run stopped after a 200 answer that holds no container.
StructuralFailuresAbortWitness ==
    /\ pc = "exit"
    /\ Len(log) = 1 /\ ~log[1].fail
    /\ j.t = "dict" /\ ~find_listings_container(j).found

\* C3: a listing without coordinates whose geocode lookup fails in any way
\* still has a null latitude and a null longitude afterwards.
FailedGeocodeLeavesNull ==
    \A i \in EventsOf("geocode") :
        (log[i].fail /\ IsNone(RawLat(log[i].k)) /\ IsNone(RawLon(log[i].k)))
            => /\ IsNone(props[log[i].k].raw.lat)
               /\ IsNone(props[log[i].k].raw.lon)

\* The geocode requests of the run: one for each listing, in container order,
\* that lacks a coordinate and has a non-empty address, none for any other,
\* all after the listing API's request.
GeocodeRule ==
    /\ \A k \in 1..Len(props) :
          Cardinality({i \in EventsOf("geocode") : log[i].k = k})
              = IF /\ IsNone(RawLat(k)) \/ IsNone(RawLon(k))
                   /\ RawAddress(k).t = "str" /\ RawAddress(k).s # <<>>
                THEN 1 ELSE 0
    /\ \A i \in EventsOf("geocode") : log[i].k \in 1..Len(props)
    /\ \A a \in EventsOf("geocode"), b \in EventsOf("geocode") :
          a < b => log[a].k < log[b].k
    /\ \A a \in EventsOf("api"), b \in EventsOf("geocode") : a < b
    /\ Cardinality(EventsOf("geocode")) <= Len(listings)

\* C4 as stated: every run makes exactly one request to the listing API, and
\* its geocode requests follow the rule above.
OneApiRequestInEveryRun ==
    /\ pc \in {"exit", "crash", "done"} => Cardinality(EventsOf("api")) = 1
    /\ GeocodeRule

\* C4, amended: a run with a key and a host makes exactly one request to the
\* listing API, a run without makes none, and the geocode requests follow the
\* rule above.
OneApiRequestWithCredentials ==
    /\ (Truthy(key) /\ Truthy(host) /\ pc \notin {"start", "request"})
          => EventsOf("api") = {1}
    /\ (~Truthy(key) \/ ~Truthy(host)) => EventsOf("api") = {}
    /\ Cardinality(EventsOf("api")) <= 1
    /\ GeocodeRule

\* A finished run over two listings of which only the second was geocoded.
OneApiRequestWitness ==
    /\ pc = "done"
    /\ Len(listings) = 2
    /\ {log[i].k : i \in EventsOf("geocode")} = {2}
    /\ EventsOf("api") = {1}

\* C5: a successful geocode lookup, one that sets latitude and longitude, is
\* followed at once by the pause, before anything else the run does; no pause
\* follows a failed lookup, and no pause occurs without a lookup.
PauseAfterSuccessfulGeocode ==
    \A i \in 1..Len(log) :
        /\ (log[i].e = "geocode" /\ ~log[i].fail) =>
              /\ i < Len(log) /\ log[i + 1] = Ev("sleep", log[i].k, FALSE)
              /\ ~IsNone(props[log[i].k].raw.lat)
              /\ ~IsNone(props[log[i].k].raw.lon)
        /\ (log[i].e = "geocode" /\ log[i].fail) =>
              (i = Len(log) \/ log[i + 1].e # "sleep")
        /\ log[i].e = "sleep" =>
              /\ i > 1 /\ log[i - 1] = Ev("geocode", log[i].k, FALSE)

\* A pause between a successful lookup and the next listing's lookup.
PauseAfterSuccessfulGeocodeWitness ==
    \E i \in EventsOf("sleep") :
        /\ i < Len(log) /\ log[i + 1].e = "geocode"
        /\ log[i - 1].e = "geocode" /\ log[i - 1].k < log[i + 1].k

\* The digits of a text, in order.
DigitsOf(str) == SelectSeq(str, IsDigit)

\* The normalised price the rule gives for a raw value.
PriceRule(v, price) ==
    CASE v.t = "int" -> price = IntV(v.n)
      [] v.t = "float" ->
           /\ price.t = "int"
           /\ v.n % Pow10(v.e) = 0 => price.n * Pow10(v.e) = v.n
      [] v.t = "str" ->
           IF DigitsOf(v.s) = <<>> THEN price = None
           ELSE price = IntV(DecimalValue(DigitsOf(v.s)))
      [] v.t = "null" -> price = None
      [] OTHER -> TRUE

\* C6: extract_field does not raise, and its price is the rule's for the value
\* of the first present key among price, price_display, price_value,
\* price_min, asking_price: the integer of a number, the integer spelled by
\* the digits of a text, null for a text without digits, a null or no key.
ExtractPriceRule ==
    pc = "returned" =>
        /\ out.ok
        /\ \A i \in 1..Len(PriceKeys) :
              (/\ HasKey(inp, PriceKeys[i])
               /\ \A h \in 1..(i - 1) : ~HasKey(inp, PriceKeys[h]))
                  => PriceRule(Get(inp, PriceKeys[i]), out.v.price)
        /\ (\A i \in 1..Len(PriceKeys) : ~HasKey(inp, PriceKeys[i]))
              => out.v.price = None

\* "$450,000" under price wins over an earlier entry under asking_price.
ExtractPriceRuleWitness ==
    /\ pc = "returned"
    /\ Len(inp.kv) = 2
    /\ inp.kv[1] = <<"asking_price", StrV(<<"4">>)>>
    /\ inp.kv[2] = <<"price", StrV(Dollars450k)>>
    /\ out.ok /\ out.v.price = IntV(450000)

\* C7: a known price, zero included, at or under max_price - 50000 gives the
\* pro "Good value under budget"; a known price at or over max_price - 10000
\* gives the con "Close to top of budget"; a null price or one strictly
\* between gives neither.
PriceLabelRule ==
    pc = "returned" =>
        LET p == out.raw.price
            known == p.t = "int"
            good == "Good value under budget" \in Range(out.pros)
            close == "Close to top of budget" \in Range(out.cons)
        IN  /\ (known /\ p.n <= maxPrice - 50000) => good
            /\ (known /\ p.n >= maxPrice - 10000) => close
            /\ (~known \/ (p.n > maxPrice - 50000 /\ p.n < maxPrice - 10000))
                  => (~good /\ ~close)

\* C8: with two beds, two or more baths give the pro "2 beds + 2 baths" and
\* null or any number of baths up to one gives the con "Only 1 bath for 2
\* beds"; exactly one of the two labels with two beds, none otherwise.
BathLabelRule ==
    pc = "returned" =>
        LET b == out.raw.beds
            ba == out.raw.baths
            two == b.t = "int" /\ b.n = 2
            pro == "2 beds + 2 baths" \in Range(out.pros)
            con == "Only 1 bath for 2 beds" \in Range(out.cons)
        IN  /\ (two /\ ba.t = "int" /\ ba.n >= 2) => pro
            /\ (two /\ (ba.t = "null" \/ (ba.t = "int" /\ ba.n <= 1))) => con
            /\ ~two => (~pro /\ ~con)
            /\ two => (pro # con)

ClaimedPriority == <<"properties", "listings", "results", "data", "items">>

\* C9: for a mapping, the list under the first key of the priority order that
\* holds a list; failing that, the first value in iteration order that is a
\* non-empty list starting with a record; for a list, the list; else nothing.
LocatorRule ==
    pc = "returned" =>
        LET prio == {i \in 1..Len(ClaimedPriority) :
                        /\ HasKey(inp, ClaimedPriority[i])
                        /\ Get(inp, ClaimedPriority[i]).t = "list"}
            fallback == {i \in 1..Len(inp.kv) :
                            /\ inp.kv[i][2].t = "list"
                            /\ inp.kv[i][2].items # <<>>
                            /\ inp.kv[i][2].items[1].t = "dict"}
        IN  CASE inp.t = "dict" /\ prio # {} ->
                   \E i \in prio :
                       /\ \A h \in prio : i <= h
                       /\ out = Found(Get(inp, ClaimedPriority[i]).items)
              [] inp.t = "dict" /\ prio = {} /\ fallback # {} ->
                   \E i \in fallback :
                       /\ \A h \in fallback : i <= h
                       /\ out = Found(inp.kv[i][2].items)
              [] inp.t = "list" -> out = Found(inp.items)
              [] OTHER -> out = NotFound

\* The list under properties wins over the list under items that precedes it.
LocatorRuleWitness ==
    /\ pc = "returned"
    /\ inp.t = "dict" /\ Len(inp.kv) = 2
    /\ inp.kv[1] = <<"items", ListA>>
    /\ inp.kv[2] = <<"properties", ListB>>
    /\ out = Found(ListB.items)

\* C10: the two distances of an entry are both null or both known: null when
\* latitude or longitude is null after the geocode step, known when both are
\* numbers, zero included.
DistancesBothOrNeither ==
    \A k \in 1..Len(props) :
        LET lat == props[k].raw.lat
            lon == props[k].raw.lon
            station == props[k].dist_station_km.known
            park == props[k].dist_park_km.known
        IN  /\ station <=> park
            /\ (IsNone(lat) \/ IsNone(lon)) => (~station /\ ~park)
            /\ (lat.t \in {"int", "float"} /\ lon.t \in {"int", "float"})
                  => (station /\ park)

=============================================================================
